---- MODULE Spec2Model ----
(***************************************************************************)
(* Model of cmd/ssh.go of devpod: the workspace-readiness loop startWait   *)
(* and the credential relay runCredentialsServer.                          *)
(*                                                                         *)
(* An error value is a sequence of messages, outermost first; the nil      *)
(* error is the empty sequence.  errors.Wrap(err, msg) puts msg in front.  *)
(***************************************************************************)
EXTENDS Integers, Sequences, FiniteSets, TLC

VARIABLES
    \* ---- startWait ----
    script,         \* what client.Status returns, query by query (the environment)
    create,         \* startWait's parameter `create` (allowProvision)
    swPc,           \* position of startWait: idle, status, sleep, start, inStart,
                    \*   create, inCreate, done
    pos,            \* number of status queries answered so far
    now,            \* the clock, in seconds
    startWaiting,   \* the local variable startWaiting
    log,            \* one record per loop iteration, in order: the answer of the
                    \*   status query, the clock after it, whether the notice was
                    \*   logged, and the provisioning calls issued
    provErr,        \* what the last provisioning call returned (None: no call)
    inFlight,       \* provisioning calls that were issued and have not returned
    swResult,       \* the error startWait returned (Nil for success)
    cancelled,      \* the root context is cancelled
    cancelAt,       \* the clock when it was cancelled
    cancelPc,       \* where startWait was when it was cancelled
    deadline,       \* the clock value at which the model stops the clock
    \* ---- runCredentialsServer ----
    gitCredentials,
    dockerCredentials,
    rcsPc,          \* position of the main path: idle, entry, pipe1, pipe2, go,
                    \*   callTunnel, tunnel, recv, done
    pipes,          \* per pipe end: allocated, number of Close calls
    goPc,           \* the goroutine of line 204: none, started, running, exited
    errChan,        \* the buffered channel errChan (capacity 1)
    cancelCtx,      \* cancelCtx is cancelled
    rcsCtx,         \* the ctx passed to runCredentialsServer is cancelled
    spawns,         \* remote helper processes spawned (devssh.Run calls)
    tunnelRuns,     \* agent.RunTunnelServer calls
    recvs,          \* receives from errChan by the main path
    rcsResult,      \* the error runCredentialsServer returned
    user,           \* runCredentialsServer's parameter `user`
    helperCommand,  \* the command the goroutine passed to devssh.Run
    runRet,         \* what devssh.Run returned (None: it has not returned)
    tunnelRet,      \* what agent.RunTunnelServer returned (None: it has not)
    rcsCtxAt,       \* where the main path was when its ctx was cancelled
    \* ---- jumpContainer ----
    cmdUser,        \* cmd.User
    cmdDebug,       \* cmd.Debug
    cmdStdio,       \* cmd.Stdio
    ideVSCode,      \* client.WorkspaceConfig().IDE.Name is config.IDEVSCode
    agentPath,      \* client.AgentPath()
    tok,            \* the local variable tok
    workspaceInfo,  \* the local variable workspaceInfo
    jcPc,           \* position of jumpContainer: idle, entry, startWait, token,
                    \*   agentInfo, handlers, run, session, done
    jcSteps,        \* the steps jumpContainer has performed, in order
    jcResult,       \* the error jumpContainer returned
    connRet,        \* the outcome of the tunnel's connection (None: not tried)
    outerPc,        \* the outer handler: none, called, running, returned
    outerRet,       \* the error the outer handler returned
    command,        \* the local variable command of the outer handler
    innerPc,        \* the inner handler: none, called, rcs, waitDone, returned
    innerRet,       \* the error the inner handler returned
    errLogged,      \* the errors logged by line 145, in order
    rcsCalls        \* calls of runCredentialsServer

waitVars == <<script, create, swPc, pos, now, startWaiting, log, provErr,
              inFlight, swResult, cancelled, cancelAt, cancelPc, deadline>>
relayVars == <<gitCredentials, dockerCredentials, rcsPc, pipes, goPc, errChan,
               cancelCtx, rcsCtx, spawns, tunnelRuns, recvs, rcsResult, user,
               helperCommand, runRet, tunnelRet, rcsCtxAt>>
jumpVars == <<cmdUser, cmdDebug, cmdStdio, ideVSCode, agentPath, tok,
              workspaceInfo, jcPc, jcSteps, jcResult, connRet, outerPc, outerRet,
              command, innerPc, innerRet, errLogged, rcsCalls>>
vars == <<waitVars, relayVars, jumpVars>>

----------------------------------------------------------------------------
\* Bounds of the model
MaxLen == 3             \* longest status script
MaxTime == 14           \* the clock stops the model here
MaxStatusDelay == 1     \* a status query takes 0..MaxStatusDelay seconds
MaxNoticeTime == 26     \* the same for the runs that look at the notices

\* Program constants
PollInterval == 2       \* time.Sleep(time.Second * 2)
WaitThreshold == 10     \* time.Since(startWaiting) > time.Second*10

----------------------------------------------------------------------------
\* Errors
Nil == <<>>
None == <<"no result">>     \* the function has not returned
Wrap(err, msg) == <<msg>> \o err
Errorf(msg) == <<msg>>
ProviderErrs == {<<"provider failure">>, <<"context canceled">>}

\* client2.Status values; "Unknown" stands for any value outside the four
StatusBusy == "Busy"
StatusStopped == "Stopped"
StatusNotFound == "NotFound"
StatusRunning == "Running"
Statuses == {StatusNotFound, StatusStopped, StatusBusy, StatusRunning, "Unknown"}

\* One answer of client.Status: (instanceStatus, err)
StatusResults ==
    {[instanceStatus |-> s, err |-> Nil] : s \in Statuses}
    \cup {[instanceStatus |-> "", err |-> e] : e \in ProviderErrs}

SeqsUpTo(S, n) == UNION {[1..k -> S] : k \in 1..n}
Scripts == SeqsUpTo(StatusResults, MaxLen)

\* The answer to the i-th query; a workspace stays in the last scripted state
ScriptAt(i) == script[IF i <= Len(script) THEN i ELSE Len(script)]

\* Log entries
Iteration(r, t, n) == [ret |-> r, at |-> t, notice |-> n, calls |-> <<>>]
AddCall(l, c) == [l EXCEPT ![Len(l)].calls = Append(@, c)]

RECURSIVE Count(_, _)
Count(x, s) == IF s = <<>> THEN 0
               ELSE (IF s[1] = x THEN 1 ELSE 0) + Count(x, Tail(s))
RECURSIVE CallCount(_, _)
CallCount(c, l) == IF l = <<>> THEN 0
                   ELSE Count(c, l[1].calls) + CallCount(c, Tail(l))
StatusCalls == Len(log)
StartCalls == CallCount("Start", log)
CreateCalls == CallCount("Create", log)

----------------------------------------------------------------------------
\* startWait (lines 79-118)

\* return err / return nil
Return(e) ==
    /\ swResult' = e
    /\ swPc' = "done"

\* Mutant: the Busy branch without its `continue`, falling through to line 116
BusyBranchNoContinue ==
    /\ log' = Append(log, Iteration(ScriptAt(pos'), now', FALSE))
    /\ startWaiting' = startWaiting
    /\ Return(Nil)

\* Mutant: the Busy branch without line 89, the restart of the timer
BusyBranchNoRestart ==
    /\ log' = Append(log, Iteration(ScriptAt(pos'), now',
                                    now' - startWaiting > WaitThreshold))
    /\ startWaiting' = startWaiting
    /\ swPc' = "sleep"
    /\ swResult' = swResult

\* lines 85-93: the Busy branch up to the sleep
BusyBranch ==
    /\ IF now' - startWaiting > WaitThreshold
       THEN /\ log' = Append(log, Iteration(ScriptAt(pos'), now', TRUE))
            /\ startWaiting' = now'
       ELSE /\ log' = Append(log, Iteration(ScriptAt(pos'), now', FALSE))
            /\ startWaiting' = startWaiting
    /\ swPc' = "sleep"
    /\ swResult' = swResult

\* Mutant: the Stopped branch without its test of `create`
StoppedBranchAlwaysStart ==
    /\ log' = Append(log, Iteration(ScriptAt(pos'), now', FALSE))
    /\ startWaiting' = startWaiting
    /\ swPc' = "start"
    /\ swResult' = swResult

\* lines 94-103: the Stopped branch up to the Start call
StoppedBranch ==
    /\ log' = Append(log, Iteration(ScriptAt(pos'), now', FALSE))
    /\ startWaiting' = startWaiting
    /\ IF create
       THEN swPc' = "start" /\ swResult' = swResult
       ELSE Return(Errorf("workspace is stopped"))

\* Mutant: the NotFound branch calling Start, as the Stopped branch does
NotFoundBranchStarts ==
    /\ log' = Append(log, Iteration(ScriptAt(pos'), now', FALSE))
    /\ startWaiting' = startWaiting
    /\ IF create
       THEN swPc' = "start" /\ swResult' = swResult
       ELSE Return(Errorf("workspace wasn't found"))

\* lines 104-113: the NotFound branch up to the Create call
NotFoundBranch ==
    /\ log' = Append(log, Iteration(ScriptAt(pos'), now', FALSE))
    /\ startWaiting' = startWaiting
    /\ IF create
       THEN swPc' = "create" /\ swResult' = swResult
       ELSE Return(Errorf("workspace wasn't found"))

\* line 116, reached by every status no branch handles
FallThrough ==
    /\ log' = Append(log, Iteration(ScriptAt(pos'), now', FALSE))
    /\ startWaiting' = startWaiting
    /\ Return(Nil)

\* Mutant: the status error wrapped before it is returned
StatusFailedWrapped(e) ==
    /\ log' = Append(log, Iteration(ScriptAt(pos'), now', FALSE))
    /\ startWaiting' = startWaiting
    /\ Return(Wrap(e, "get status"))

\* lines 83-84
StatusFailed(e) ==
    /\ log' = Append(log, Iteration(ScriptAt(pos'), now', FALSE))
    /\ startWaiting' = startWaiting
    /\ Return(e)

\* lines 82-116: one status query, taking d seconds, and the branch on its answer
QueryStatus(d) ==
    /\ swPc = "status"
    /\ now + d <= deadline
    /\ now' = now + d
    /\ pos' = pos + 1
    /\ LET r == ScriptAt(pos + 1) IN
         IF r.err # Nil THEN StatusFailed(r.err)
         ELSE IF r.instanceStatus = StatusBusy THEN BusyBranch
         ELSE IF r.instanceStatus = StatusStopped THEN StoppedBranch
         ELSE IF r.instanceStatus = StatusNotFound THEN NotFoundBranch
         ELSE FallThrough
    /\ UNCHANGED <<script, create, deadline, provErr, inFlight, cancelled, cancelAt, cancelPc>>

\* lines 92-93: time.Sleep(2s); continue.  The sleep does not look at ctx.
Sleep ==
    /\ swPc = "sleep"
    /\ now + PollInterval <= deadline
    /\ now' = now + PollInterval
    /\ swPc' = "status"
    /\ UNCHANGED <<script, create, deadline, pos, startWaiting, log, provErr, inFlight,
                   swResult, cancelled, cancelAt, cancelPc>>

\* line 97: client.Start is called
StartCall ==
    /\ swPc = "start"
    /\ swPc' = "inStart"
    /\ log' = AddCall(log, "Start")
    /\ inFlight' = inFlight + 1
    /\ UNCHANGED <<script, create, deadline, pos, now, startWaiting, provErr, swResult,
                   cancelled, cancelAt, cancelPc>>

\* lines 98-100 and 116: what startWait does with the error Start returned
AfterStart(e) ==
    IF e # Nil THEN Return(Wrap(e, "start workspace")) ELSE Return(Nil)

\* lines 97-100, 116: client.Start returns e
StartReturn(e) ==
    /\ swPc = "inStart"
    /\ inFlight' = inFlight - 1
    /\ provErr' = e
    /\ AfterStart(e)
    /\ UNCHANGED <<script, create, deadline, pos, now, startWaiting, log, cancelled,
                   cancelAt, cancelPc>>

\* line 107: client.Create is called
CreateCall ==
    /\ swPc = "create"
    /\ swPc' = "inCreate"
    /\ log' = AddCall(log, "Create")
    /\ inFlight' = inFlight + 1
    /\ UNCHANGED <<script, create, deadline, pos, now, startWaiting, provErr, swResult,
                   cancelled, cancelAt, cancelPc>>

\* lines 108-110 and 116: what startWait does with the error Create returned
AfterCreate(e) ==
    IF e # Nil THEN Return(e) ELSE Return(Nil)

\* lines 107-110, 116: client.Create returns e
CreateReturn(e) ==
    /\ swPc = "inCreate"
    /\ inFlight' = inFlight - 1
    /\ provErr' = e
    /\ AfterCreate(e)
    /\ UNCHANGED <<script, create, deadline, pos, now, startWaiting, log, cancelled,
                   cancelAt, cancelPc>>

\* The caller cancels the root context while startWait runs
Cancel ==
    /\ swPc \notin {"idle", "done"}
    /\ ~cancelled
    /\ cancelled' = TRUE
    /\ cancelAt' = now
    /\ cancelPc' = swPc
    /\ UNCHANGED <<script, create, deadline, swPc, pos, now, startWaiting, log, provErr,
                   inFlight, swResult>>

\* startWait has just been called: line 80 has read the clock
Called ==
    /\ swPc = "status"
    /\ pos = 0
    /\ now = 0
    /\ startWaiting = 0
    /\ log = <<>>
    /\ provErr = None
    /\ inFlight = 0
    /\ swResult = None
    /\ cancelled = FALSE
    /\ cancelAt = 0
    /\ cancelPc = "idle"

WaitInit ==
    /\ script \in Scripts
    /\ create \in BOOLEAN
    /\ deadline = MaxTime
    /\ Called

WaitIdle ==
    /\ script = <<[instanceStatus |-> StatusRunning, err |-> Nil]>>
    /\ create = FALSE
    /\ deadline = 0
    /\ swPc = "idle"
    /\ pos = 0
    /\ now = 0
    /\ startWaiting = 0
    /\ log = <<>>
    /\ provErr = None
    /\ inFlight = 0
    /\ swResult = None
    /\ cancelled = FALSE
    /\ cancelAt = 0
    /\ cancelPc = "idle"

\* Values of the --user flag; the empty string is the flag left out
Users == {"", "root", "vscode"}

\* The four ends of the two os.Pipe() pairs of lines 186 and 192
PipeEnds == {"stdoutReader", "stdoutWriter", "stdinReader", "stdinWriter"}
NoPipes == [e \in PipeEnds |-> [allocated |-> FALSE, closes |-> 0]]

RelayIdle ==
    /\ user = ""
    /\ gitCredentials = FALSE
    /\ dockerCredentials = FALSE
    /\ rcsPc = "idle"
    /\ pipes = NoPipes
    /\ goPc = "none"
    /\ errChan = <<>>
    /\ cancelCtx = FALSE
    /\ rcsCtx = FALSE
    /\ spawns = 0
    /\ tunnelRuns = 0
    /\ recvs = 0
    /\ rcsResult = None
    /\ helperCommand = ""
    /\ runRet = None
    /\ tunnelRet = None
    /\ rcsCtxAt = "idle"

JumpIdle ==
    /\ cmdUser = ""
    /\ cmdDebug = FALSE
    /\ cmdStdio = FALSE
    /\ ideVSCode = FALSE
    /\ agentPath = ""
    /\ tok = ""
    /\ workspaceInfo = ""
    /\ jcPc = "idle"
    /\ jcSteps = <<>>
    /\ jcResult = None
    /\ connRet = None
    /\ outerPc = "none"
    /\ outerRet = None
    /\ command = ""
    /\ innerPc = "none"
    /\ innerRet = None
    /\ errLogged = <<>>
    /\ rcsCalls = 0

InitWait == WaitInit /\ RelayIdle /\ JumpIdle

NextWait ==
    \/ \E d \in 0..MaxStatusDelay : QueryStatus(d) /\ UNCHANGED <<relayVars, jumpVars>>
    \/ Sleep /\ UNCHANGED <<relayVars, jumpVars>>
    \/ StartCall /\ UNCHANGED <<relayVars, jumpVars>>
    \/ \E e \in {Nil} \cup ProviderErrs : StartReturn(e) /\ UNCHANGED <<relayVars, jumpVars>>
    \/ CreateCall /\ UNCHANGED <<relayVars, jumpVars>>
    \/ \E e \in {Nil} \cup ProviderErrs : CreateReturn(e) /\ UNCHANGED <<relayVars, jumpVars>>
    \/ Cancel /\ UNCHANGED <<relayVars, jumpVars>>

SpecWait == InitWait /\ [][NextWait]_vars

\* startWait left alone by its caller, watched long enough for two notices
InitNotice ==
    /\ script \in Scripts
    /\ create \in BOOLEAN
    /\ deadline = MaxNoticeTime
    /\ Called
    /\ RelayIdle
    /\ JumpIdle

NextNotice ==
    \/ \E d \in 0..MaxStatusDelay : QueryStatus(d) /\ UNCHANGED <<relayVars, jumpVars>>
    \/ Sleep /\ UNCHANGED <<relayVars, jumpVars>>
    \/ StartCall /\ UNCHANGED <<relayVars, jumpVars>>
    \/ \E e \in {Nil} \cup ProviderErrs : StartReturn(e) /\ UNCHANGED <<relayVars, jumpVars>>
    \/ CreateCall /\ UNCHANGED <<relayVars, jumpVars>>
    \/ \E e \in {Nil} \cup ProviderErrs : CreateReturn(e) /\ UNCHANGED <<relayVars, jumpVars>>

SpecNotice == InitNotice /\ [][NextNotice]_vars

----------------------------------------------------------------------------
\* runCredentialsServer (lines 181-228)

PipeErr == <<"pipe: too many open files">>
CtxErr == <<"context canceled">>      \* ctx.Err() of a cancelled context
RunErrs == {<<"remote process failed">>, CtxErr}

Allocate(p, ends) ==
    [e \in PipeEnds |-> IF e \in ends THEN [p[e] EXCEPT !.allocated = TRUE] ELSE p[e]]
Close(p, ends) ==
    [e \in PipeEnds |-> IF e \in ends THEN [p[e] EXCEPT !.closes = @ + 1] ELSE p[e]]

\* Mutant: errChan made without a buffer
ErrChanUnbuffered == 1 - 1

\* line 203: make(chan error, 1)
ErrChanCap == 1

\* agent.ContainerDevPodHelperLocation
ContainerDevPodHelperLocation == "/tmp/devpod"

\* Mutant: the two helper flags appended in the other order
HelperCommandSwapped(u, g, d) ==
    ContainerDevPodHelperLocation
    \o " agent container credentials-server --user '" \o u \o "'"
    \o (IF d THEN " --configure-docker-helper" ELSE "")
    \o (IF g THEN " --configure-git-helper" ELSE "")

\* lines 209-215: the command of the remote helper process
HelperCommand(u, g, d) ==
    ContainerDevPodHelperLocation
    \o " agent container credentials-server --user '" \o u \o "'"
    \o (IF g THEN " --configure-git-helper" ELSE "")
    \o (IF d THEN " --configure-docker-helper" ELSE "")

\* cancelCtx.Done(): cancel() was called or the parent context is cancelled
CancelCtxDone == cancelCtx \/ rcsCtx

\* Mutant: the test of line 182 left out
NoForwardingDropped(g, d) == FALSE

\* line 182: the test of the two forwarding flags
NoForwarding(g, d) == ~g /\ ~d

\* The deferred calls that run at a return, by how far the function got:
\* line 190 after the first pipe, line 196 after the second, line 200 after
\* context.WithCancel.
DeferredCloses(pc) ==
    IF pc \in {"entry", "pipe1"} THEN {}
    ELSE IF pc = "pipe2" THEN {"stdoutWriter"}
    ELSE {"stdoutWriter", "stdinWriter"}
\* Mutant: line 200 left out
DeferredCancelLeftOut(pc) == FALSE

DeferredCancel(pc) == pc \in {"go", "callTunnel", "tunnel", "recv"}

\* return e, running the deferred calls registered so far
RcsReturn(e) ==
    /\ rcsResult' = e
    /\ rcsPc' = "done"
    /\ pipes' = Close(pipes, DeferredCloses(rcsPc))
    /\ cancelCtx' = (cancelCtx \/ DeferredCancel(rcsPc))

\* lines 182-184
Entry ==
    /\ rcsPc = "entry"
    /\ IF NoForwarding(gitCredentials, dockerCredentials)
       THEN RcsReturn(Nil)
       ELSE /\ rcsPc' = "pipe1"
            /\ UNCHANGED <<pipes, cancelCtx, rcsResult>>
    /\ UNCHANGED <<gitCredentials, dockerCredentials, user, goPc, errChan, rcsCtx,
                   spawns, tunnelRuns, recvs, helperCommand, runRet,
                   tunnelRet, rcsCtxAt>>

\* lines 186-190: the first os.Pipe()
Pipe1(ok) ==
    /\ rcsPc = "pipe1"
    /\ IF ok
       THEN /\ pipes' = Allocate(pipes, {"stdoutReader", "stdoutWriter"})
            /\ rcsPc' = "pipe2"
            /\ UNCHANGED <<cancelCtx, rcsResult>>
       ELSE RcsReturn(PipeErr)
    /\ UNCHANGED <<gitCredentials, dockerCredentials, user, goPc, errChan, rcsCtx,
                   spawns, tunnelRuns, recvs, helperCommand, runRet,
                   tunnelRet, rcsCtxAt>>

\* lines 192-196: the second os.Pipe()
Pipe2(ok) ==
    /\ rcsPc = "pipe2"
    /\ IF ok
       THEN /\ pipes' = Allocate(pipes, {"stdinReader", "stdinWriter"})
            /\ rcsPc' = "go"
            /\ UNCHANGED <<cancelCtx, rcsResult>>
       ELSE RcsReturn(PipeErr)
    /\ UNCHANGED <<gitCredentials, dockerCredentials, user, goPc, errChan, rcsCtx,
                   spawns, tunnelRuns, recvs, helperCommand, runRet,
                   tunnelRet, rcsCtxAt>>

\* lines 199-204: context.WithCancel, make(chan error, 1), the go statement
Go ==
    /\ rcsPc = "go"
    /\ goPc' = "started"
    /\ rcsPc' = "callTunnel"
    /\ UNCHANGED <<gitCredentials, dockerCredentials, user, pipes, errChan, cancelCtx,
                   rcsCtx, spawns, tunnelRuns, recvs, rcsResult, 
                   helperCommand, runRet, tunnelRet, rcsCtxAt>>

\* lines 205-217: the goroutine builds the command and calls devssh.Run
GoRun ==
    /\ goPc = "started"
    /\ goPc' = "running"
    /\ spawns' = spawns + 1
    /\ helperCommand' = HelperCommand(user, gitCredentials, dockerCredentials)
    /\ UNCHANGED <<gitCredentials, dockerCredentials, user, rcsPc, pipes, errChan,
                   cancelCtx, rcsCtx, tunnelRuns, recvs, rcsResult, 
                   runRet, tunnelRet, rcsCtxAt>>

\* lines 217, 207, 205: devssh.Run returns e, which is sent on errChan; the
\* deferred cancel() runs.  The send needs room in the channel (capacity 1).
GoExit(e) ==
    /\ goPc = "running"
    /\ Len(errChan) < ErrChanCap
    /\ errChan' = Append(errChan, e)
    /\ runRet' = e
    /\ cancelCtx' = TRUE
    /\ goPc' = "exited"
    /\ UNCHANGED <<gitCredentials, dockerCredentials, user, rcsPc, pipes, rcsCtx,
                   spawns, tunnelRuns, recvs, rcsResult, 
                   helperCommand, tunnelRet, rcsCtxAt>>

\* line 221: agent.RunTunnelServer is called
CallTunnel ==
    /\ rcsPc = "callTunnel"
    /\ rcsPc' = "tunnel"
    /\ tunnelRuns' = tunnelRuns + 1
    /\ UNCHANGED <<gitCredentials, dockerCredentials, user, pipes, goPc, errChan,
                   cancelCtx, rcsCtx, spawns, recvs, rcsResult, 
                   helperCommand, runRet, tunnelRet, rcsCtxAt>>

\* Mutant: a nil from the tunnel server returned at once, line 227 left out
TunnelReturnNoWait(e) ==
    /\ rcsPc = "tunnel"
    /\ tunnelRet' = e
    /\ RcsReturn(IF e # Nil THEN Wrap(e, "run tunnel server") ELSE Nil)
    /\ UNCHANGED <<gitCredentials, dockerCredentials, user, goPc, errChan, rcsCtx,
                   spawns, tunnelRuns, recvs, helperCommand, runRet, rcsCtxAt>>

\* lines 221-224: agent.RunTunnelServer returns e
TunnelReturn(e) ==
    /\ rcsPc = "tunnel"
    /\ tunnelRet' = e
    /\ IF e # Nil
       THEN RcsReturn(Wrap(e, "run tunnel server"))
       ELSE /\ rcsPc' = "recv"
            /\ UNCHANGED <<pipes, cancelCtx, rcsResult>>
    /\ UNCHANGED <<gitCredentials, dockerCredentials, user, goPc, errChan, rcsCtx,
                   spawns, tunnelRuns, recvs, helperCommand, runRet,
                   rcsCtxAt>>

\* line 227: return <-errChan
Receive ==
    /\ rcsPc = "recv"
    /\ Len(errChan) > 0
    /\ errChan' = Tail(errChan)
    /\ recvs' = recvs + 1
    /\ RcsReturn(Head(errChan))
    /\ UNCHANGED <<gitCredentials, dockerCredentials, user, goPc, rcsCtx, spawns,
                   tunnelRuns, 
                   helperCommand, runRet, tunnelRet, rcsCtxAt>>

\* The caller cancels the context it passed to runCredentialsServer
CancelCtx ==
    /\ rcsPc # "idle"
    /\ ~rcsCtx
    /\ rcsCtx' = TRUE
    /\ rcsCtxAt' = rcsPc
    /\ UNCHANGED <<gitCredentials, dockerCredentials, user, rcsPc, pipes, goPc, errChan,
                   cancelCtx, spawns, tunnelRuns, recvs, rcsResult, 
                   helperCommand, runRet, tunnelRet>>

RelayInit ==
    /\ user \in Users
    /\ gitCredentials \in BOOLEAN
    /\ dockerCredentials \in BOOLEAN
    /\ rcsPc = "entry"
    /\ pipes = NoPipes
    /\ goPc = "none"
    /\ errChan = <<>>
    /\ cancelCtx = FALSE
    /\ rcsCtx = FALSE
    /\ spawns = 0
    /\ tunnelRuns = 0
    /\ recvs = 0
    /\ rcsResult = None
    /\ helperCommand = ""
    /\ runRet = None
    /\ tunnelRet = None
    /\ rcsCtxAt = "idle"

InitRelay == RelayInit /\ WaitIdle /\ JumpIdle

NextRelay ==
    \/ Entry /\ UNCHANGED <<waitVars, jumpVars>>
    \/ \E ok \in BOOLEAN : Pipe1(ok) /\ UNCHANGED <<waitVars, jumpVars>>
    \/ \E ok \in BOOLEAN : Pipe2(ok) /\ UNCHANGED <<waitVars, jumpVars>>
    \/ Go /\ UNCHANGED <<waitVars, jumpVars>>
    \/ GoRun /\ UNCHANGED <<waitVars, jumpVars>>
    \/ \E e \in {Nil} \cup RunErrs : GoExit(e) /\ UNCHANGED <<waitVars, jumpVars>>
    \/ CallTunnel /\ UNCHANGED <<waitVars, jumpVars>>
    \/ \E e \in {Nil} \cup RunErrs : TunnelReturn(e) /\ UNCHANGED <<waitVars, jumpVars>>
    \/ Receive /\ UNCHANGED <<waitVars, jumpVars>>
    \/ CancelCtx /\ UNCHANGED <<waitVars, jumpVars>>

SpecRelay == InitRelay /\ [][NextRelay]_vars

\* The goroutine is scheduled, and devssh.Run returns once the context it was
\* given is cancelled (SSHSessionRunner: "returns when the command completes
\* or the context is cancelled").
GoScheduled == GoRun /\ UNCHANGED <<waitVars, jumpVars>>
RunEndsOnCancel ==
    /\ CancelCtxDone
    /\ \E e \in {Nil} \cup RunErrs : GoExit(e)
    /\ UNCHANGED <<waitVars, jumpVars>>

SpecRelayFair == SpecRelay /\ WF_vars(GoScheduled) /\ WF_vars(RunEndsOnCancel)

----------------------------------------------------------------------------
\* jumpContainer (lines 120-179)

MaxJumpLen == 1         \* longest status script of a jumpContainer run
MaxJumpTime == 4        \* the clock stops a jumpContainer run here

AgentPaths == {"/usr/bin/devpod", "/opt/devpod"}
Tokens == {"tokenA", "tokenB"}
Infos == {"{}", "{\"id\":1}"}
TokenErrs == {<<"get token">>}
AgentInfoErrs == {<<"agent info">>}
ConnectErrs == {<<"connect">>}
KeyErrs == {<<"private key">>}
SessionErrs == {<<"session">>}

\* Mutant: --user put before --debug
OuterCommandUserFirst(path, t, info, u, debug) ==
    path
    \o " agent container-tunnel --start-container --track-activity --token '"
    \o t \o "' --workspace-info '" \o info \o "'"
    \o (IF u # "" THEN " --user='" \o u \o "'" ELSE "")
    \o (IF debug THEN " --debug" ELSE "")

\* lines 159-165: the command of the outer tunnel
OuterCommand(path, t, info, u, debug) ==
    path
    \o " agent container-tunnel --start-container --track-activity --token '"
    \o t \o "' --workspace-info '" \o info \o "'"
    \o (IF debug THEN " --debug" ELSE "")
    \o (IF u # "" THEN " --user='" \o u \o "'" ELSE "")

\* Mutant: startWait called with provisioning allowed
StartWaitCreateArgTrue == TRUE

\* line 121: the third argument of startWait(ctx, client, false, log)
StartWaitCreateArg == FALSE

\* line 140: runInContainer is built only for a non-empty cmd.User
RunInContainer == cmdUser # ""

\* return err of jumpContainer
JcReturn(e) ==
    /\ jcResult' = e
    /\ jcPc' = "done"

\* line 121: startWait is called
JcCallStartWait ==
    /\ jcPc = "entry"
    /\ jcPc' = "startWait"
    /\ jcSteps' = Append(jcSteps, "startWait")
    /\ create' = StartWaitCreateArg
    /\ swPc' = "status"
    /\ startWaiting' = now
    /\ UNCHANGED <<script, deadline, pos, now, log, provErr, inFlight, swResult,
                   cancelled, cancelAt, cancelPc>>
    /\ UNCHANGED <<cmdUser, cmdDebug, cmdStdio, ideVSCode, agentPath, tok,
                   workspaceInfo, jcResult, connRet, outerPc, outerRet, command,
                   innerPc, innerRet, errLogged, rcsCalls>>
    /\ UNCHANGED relayVars

\* the steps of startWait while jumpContainer waits for it; how long a query
\* takes plays no part in what jumpContainer does
StartWaitStep ==
    \/ QueryStatus(0)
    \/ Sleep
    \/ StartCall
    \/ \E e \in {Nil} \cup ProviderErrs : StartReturn(e)
    \/ CreateCall
    \/ \E e \in {Nil} \cup ProviderErrs : CreateReturn(e)

\* lines 121-124: startWait has returned
JcAfterWait ==
    /\ jcPc = "startWait"
    /\ swPc = "done"
    /\ IF swResult # Nil
       THEN JcReturn(swResult)
       ELSE jcPc' = "token" /\ jcResult' = jcResult
    /\ UNCHANGED <<cmdUser, cmdDebug, cmdStdio, ideVSCode, agentPath, tok,
                   workspaceInfo, jcSteps, connRet, outerPc, outerRet, command,
                   innerPc, innerRet, errLogged, rcsCalls>>
    /\ UNCHANGED <<waitVars, relayVars>>

\* lines 127-130: token.GetDevPodToken() returns (t, e)
JcToken(t, e) ==
    /\ jcPc = "token"
    /\ jcSteps' = Append(jcSteps, "token")
    /\ IF e # Nil
       THEN JcReturn(e) /\ tok' = tok
       ELSE jcPc' = "agentInfo" /\ tok' = t /\ jcResult' = jcResult
    /\ UNCHANGED <<cmdUser, cmdDebug, cmdStdio, ideVSCode, agentPath,
                   workspaceInfo, connRet, outerPc, outerRet, command, innerPc,
                   innerRet, errLogged, rcsCalls>>
    /\ UNCHANGED <<waitVars, relayVars>>

\* lines 133-136: client.AgentInfo() returns (w, _, e)
JcAgentInfo(w, e) ==
    /\ jcPc = "agentInfo"
    /\ jcSteps' = Append(jcSteps, "agentInfo")
    /\ IF e # Nil
       THEN JcReturn(e) /\ workspaceInfo' = workspaceInfo
       ELSE jcPc' = "handlers" /\ workspaceInfo' = w /\ jcResult' = jcResult
    /\ UNCHANGED <<cmdUser, cmdDebug, cmdStdio, ideVSCode, agentPath, tok,
                   connRet, outerPc, outerRet, command, innerPc, innerRet,
                   errLogged, rcsCalls>>
    /\ UNCHANGED <<waitVars, relayVars>>

\* lines 139-154: the handlers are built and the tunnel's Run is called
JcRun ==
    /\ jcPc = "handlers"
    /\ jcPc' = "run"
    /\ jcSteps' = Append(jcSteps, "run")
    /\ UNCHANGED <<cmdUser, cmdDebug, cmdStdio, ideVSCode, agentPath, tok,
                   workspaceInfo, jcResult, connRet, outerPc, outerRet, command,
                   innerPc, innerRet, errLogged, rcsCalls>>
    /\ UNCHANGED <<waitVars, relayVars>>

\* The tunnel's Run: the outer connection is established, or fails with e.
\* Once it is ready the inner handler, if there is one, is launched as a task
\* of its own and the outer handler is invoked.
TunnelConnect(e) ==
    /\ jcPc = "run"
    /\ connRet' = e
    /\ IF e # Nil
       THEN JcReturn(e) /\ UNCHANGED <<outerPc, innerPc>>
       ELSE /\ jcPc' = "session"
            /\ jcResult' = jcResult
            /\ outerPc' = "called"
            /\ innerPc' = IF RunInContainer THEN "called" ELSE "none"
    /\ UNCHANGED <<cmdUser, cmdDebug, cmdStdio, ideVSCode, agentPath, tok,
                   workspaceInfo, jcSteps, outerRet, command, innerRet,
                   errLogged, rcsCalls>>
    /\ UNCHANGED <<waitVars, relayVars>>

\* lines 141-143: the inner handler calls runCredentialsServer
InnerCallRcs ==
    /\ innerPc = "called"
    /\ innerPc' = "rcs"
    /\ rcsCalls' = rcsCalls + 1
    /\ rcsPc' = "entry"
    /\ user' = cmdUser
    /\ gitCredentials' = ~ideVSCode
    /\ dockerCredentials' = TRUE
    /\ UNCHANGED <<pipes, goPc, errChan, cancelCtx, rcsCtx, spawns, tunnelRuns,
                   recvs, rcsResult, helperCommand, runRet, tunnelRet, rcsCtxAt>>
    /\ UNCHANGED <<cmdUser, cmdDebug, cmdStdio, ideVSCode, agentPath, tok,
                   workspaceInfo, jcPc, jcSteps, jcResult, connRet, outerPc,
                   outerRet, command, innerRet, errLogged>>
    /\ UNCHANGED waitVars

\* lines 143-146: runCredentialsServer has returned; its error is logged
InnerAfterRcs ==
    /\ innerPc = "rcs"
    /\ rcsPc = "done"
    /\ errLogged' = IF rcsResult # Nil THEN Append(errLogged, rcsResult)
                    ELSE errLogged
    /\ innerPc' = "waitDone"
    /\ UNCHANGED <<cmdUser, cmdDebug, cmdStdio, ideVSCode, agentPath, tok,
                   workspaceInfo, jcPc, jcSteps, jcResult, connRet, outerPc,
                   outerRet, command, innerRet, rcsCalls>>
    /\ UNCHANGED <<waitVars, relayVars>>

\* Mutant: the inner handler returning the error of runCredentialsServer
InnerResultPropagates(e) == e

\* line 149: what the inner handler returns after runCredentialsServer gave e
InnerResult(e) == Nil

\* Mutant: the inner handler not waiting for its context
InnerMayReturnAtOnce(done) == TRUE

\* line 148: <-ctx.Done() lets the handler go on once the context is done
InnerMayReturn(done) == done

\* lines 148-149: <-ctx.Done(); return nil
InnerReturn ==
    /\ innerPc = "waitDone"
    /\ InnerMayReturn(rcsCtx)
    /\ innerRet' = InnerResult(rcsResult)
    /\ innerPc' = "returned"
    /\ UNCHANGED <<cmdUser, cmdDebug, cmdStdio, ideVSCode, agentPath, tok,
                   workspaceInfo, jcPc, jcSteps, jcResult, connRet, outerPc,
                   outerRet, command, errLogged, rcsCalls>>
    /\ UNCHANGED <<waitVars, relayVars>>

\* lines 155-173: the outer handler builds the command; without --stdio it
\* reads the private key, which fails with keyErr or not
OuterBuild(keyErr) ==
    /\ outerPc = "called"
    /\ command' = OuterCommand(agentPath, tok, workspaceInfo, cmdUser, cmdDebug)
    /\ IF ~cmdStdio /\ keyErr # Nil
       THEN outerPc' = "returned" /\ outerRet' = keyErr
       ELSE outerPc' = "running" /\ outerRet' = outerRet
    /\ UNCHANGED <<cmdUser, cmdDebug, cmdStdio, ideVSCode, agentPath, tok,
                   workspaceInfo, jcPc, jcSteps, jcResult, connRet, innerPc,
                   innerRet, errLogged, rcsCalls>>
    /\ UNCHANGED <<waitVars, relayVars>>

\* lines 167, 175-177: devssh.Run or machine.StartSSHSession returns e
OuterReturn(e) ==
    /\ outerPc = "running"
    /\ outerPc' = "returned"
    /\ outerRet' = e
    /\ UNCHANGED <<cmdUser, cmdDebug, cmdStdio, ideVSCode, agentPath, tok,
                   workspaceInfo, jcPc, jcSteps, jcResult, connRet, command,
                   innerPc, innerRet, errLogged, rcsCalls>>
    /\ UNCHANGED <<waitVars, relayVars>>

\* a context of the session is cancelled: the handlers' contexts derive from it
SessionCtxDone ==
    /\ rcsCtx' = TRUE
    /\ rcsCtxAt' = IF rcsCtx THEN rcsCtxAt ELSE rcsPc
    /\ UNCHANGED <<gitCredentials, dockerCredentials, user, rcsPc, pipes, goPc,
                   errChan, cancelCtx, spawns, tunnelRuns, recvs, rcsResult,
                   helperCommand, runRet, tunnelRet>>

\* The tunnel's Run returns what the outer handler returned, without waiting
\* for the inner handler; line 154 returns it. The handlers' context may end
\* with the session (ends) or only with the root context.
TunnelRunReturn(ends) ==
    /\ jcPc = "session"
    /\ outerPc = "returned"
    /\ JcReturn(outerRet)
    /\ IF ends THEN SessionCtxDone ELSE UNCHANGED relayVars
    /\ UNCHANGED <<cmdUser, cmdDebug, cmdStdio, ideVSCode, agentPath, tok,
                   workspaceInfo, jcSteps, connRet, outerPc, outerRet, command,
                   innerPc, innerRet, errLogged, rcsCalls>>
    /\ UNCHANGED waitVars

\* The caller cancels the root context of jumpContainer
JcCancel ==
    /\ jcPc # "idle"
    /\ ~cancelled
    /\ cancelled' = TRUE
    /\ cancelAt' = now
    /\ cancelPc' = swPc
    /\ SessionCtxDone
    /\ UNCHANGED <<script, create, deadline, swPc, pos, now, startWaiting, log,
                   provErr, inFlight, swResult>>
    /\ UNCHANGED jumpVars

\* The answers startWait gets to see: only a Busy answer is followed by another
JumpScripts ==
    {s \in SeqsUpTo(StatusResults, MaxJumpLen) :
        \A i \in 1..(Len(s) - 1) : s[i] = [instanceStatus |-> StatusBusy, err |-> Nil]}

\* jumpContainer has been called; startWait has not
JumpInit ==
    /\ cmdUser \in Users
    /\ cmdDebug \in BOOLEAN
    /\ cmdStdio \in BOOLEAN
    /\ ideVSCode \in BOOLEAN
    /\ agentPath = "/usr/bin/devpod"
    /\ tok = ""
    /\ workspaceInfo = ""
    /\ jcPc = "entry"
    /\ jcSteps = <<>>
    /\ jcResult = None
    /\ connRet = None
    /\ outerPc = "none"
    /\ outerRet = None
    /\ command = ""
    /\ innerPc = "none"
    /\ innerRet = None
    /\ errLogged = <<>>
    /\ rcsCalls = 0

InitJump ==
    /\ JumpInit
    /\ RelayIdle
    /\ script \in JumpScripts
    /\ create = TRUE
    /\ deadline = MaxJumpTime
    /\ swPc = "idle"
    /\ pos = 0
    /\ now = 0
    /\ startWaiting = 0
    /\ log = <<>>
    /\ provErr = None
    /\ inFlight = 0
    /\ swResult = None
    /\ cancelled = FALSE
    /\ cancelAt = 0
    /\ cancelPc = "idle"

NextJump ==
    \/ JcCallStartWait
    \/ StartWaitStep /\ UNCHANGED <<relayVars, jumpVars>>
    \/ JcAfterWait
    \/ JcToken("tokenA", Nil)
    \/ \E e \in TokenErrs : JcToken("", e)
    \/ JcAgentInfo("{}", Nil)
    \/ \E e \in AgentInfoErrs : JcAgentInfo("", e)
    \/ JcRun
    \/ \E e \in {Nil} \cup ConnectErrs : TunnelConnect(e)
    \/ InnerCallRcs
    \/ Entry /\ UNCHANGED <<waitVars, jumpVars>>
    \/ \E ok \in BOOLEAN : Pipe1(ok) /\ UNCHANGED <<waitVars, jumpVars>>
    \/ \E ok \in BOOLEAN : Pipe2(ok) /\ UNCHANGED <<waitVars, jumpVars>>
    \/ Go /\ UNCHANGED <<waitVars, jumpVars>>
    \/ GoRun /\ UNCHANGED <<waitVars, jumpVars>>
    \/ \E e \in {Nil} \cup RunErrs : GoExit(e) /\ UNCHANGED <<waitVars, jumpVars>>
    \/ CallTunnel /\ UNCHANGED <<waitVars, jumpVars>>
    \/ \E e \in {Nil} \cup RunErrs : TunnelReturn(e) /\ UNCHANGED <<waitVars, jumpVars>>
    \/ Receive /\ UNCHANGED <<waitVars, jumpVars>>
    \/ InnerAfterRcs
    \/ InnerReturn
    \/ \E k \in {Nil} \cup KeyErrs : OuterBuild(k)
    \/ \E e \in {Nil} \cup SessionErrs : OuterReturn(e)
    \/ \E ends \in BOOLEAN : TunnelRunReturn(ends)
    \/ JcCancel

SpecJump == InitJump /\ [][NextJump]_vars

\* The inner handler is a task that gets to run
SpecJumpFair == SpecJump /\ WF_vars(InnerAfterRcs) /\ WF_vars(InnerReturn)

\* The outer handler alone, for every input of its command
InitCommand ==
    /\ WaitIdle
    /\ RelayIdle
    /\ cmdUser \in Users
    /\ cmdDebug \in BOOLEAN
    /\ cmdStdio \in BOOLEAN
    /\ ideVSCode = FALSE
    /\ agentPath \in AgentPaths
    /\ tok \in Tokens
    /\ workspaceInfo \in Infos
    /\ jcPc = "session"
    /\ jcSteps = <<"startWait", "token", "agentInfo", "run">>
    /\ jcResult = None
    /\ connRet = Nil
    /\ outerPc = "called"
    /\ outerRet = None
    /\ command = ""
    /\ innerPc = "none"
    /\ innerRet = None
    /\ errLogged = <<>>
    /\ rcsCalls = 0

NextCommand ==
    \/ \E k \in {Nil} \cup KeyErrs : OuterBuild(k)
    \/ \E e \in {Nil} \cup SessionErrs : OuterReturn(e)

SpecCommand == InitCommand /\ [][NextCommand]_vars

----------------------------------------------------------------------------
\* Claims about startWait

Transient == {StatusBusy, StatusStopped, StatusNotFound}
IsOk(r, S) == r.err = Nil /\ r.instanceStatus \in S
\* the script is a sequence over S followed by Running, every query succeeding
EndsRunningAfter(S) ==
    /\ IsOk(script[Len(script)], {StatusRunning})
    /\ \A i \in 1..(Len(script) - 1) : IsOk(script[i], S)
\* the answers so far are Busy up to the last one
BusyBeforeLast == \A i \in 1..(Len(log) - 1) : IsOk(log[i].ret, {StatusBusy})
LastRet == log[Len(log)].ret
LastCalls == log[Len(log)].calls

\* C1: with allowProvision and every Start/Create succeeding, for a script of
\* Busy/Stopped/NotFound followed by Running, startWait returns success only
\* after it has consumed the whole script: len(s)+1 status queries, the last
\* of which yielded Running.
C1_SuccessOnlyAfterRunning ==
    (/\ swPc = "done"
     /\ create
     /\ provErr \in {None, Nil}
     /\ EndsRunningAfter(Transient))
    => /\ swResult = Nil
       /\ StatusCalls = Len(script)
       /\ IsOk(LastRet, {StatusRunning})

\* C2: without allowProvision, after any number of Busy answers, the first
\* Stopped or NotFound answer makes startWait return the descriptive error,
\* and neither Start nor Create was ever called.
C2_NotReadyError ==
    (/\ ~create
     /\ Len(log) >= 1
     /\ BusyBeforeLast
     /\ IsOk(LastRet, {StatusStopped, StatusNotFound}))
    => /\ swPc = "done"
       /\ swResult = IF LastRet.instanceStatus = StatusStopped
                     THEN <<"workspace is stopped">>
                     ELSE <<"workspace wasn't found">>
       /\ StartCalls = 0
       /\ CreateCalls = 0
       /\ inFlight = 0

C2_Witness ==
    /\ ~create
    /\ Len(log) = 3
    /\ BusyBeforeLast
    /\ IsOk(LastRet, {StatusNotFound})
    /\ swPc = "done"
    /\ swResult = <<"workspace wasn't found">>

\* C3: once the root context was cancelled during the poll sleep of the Busy
\* loop, startWait has returned by the time more than one polling interval
\* has passed since the cancellation.
C3_CancelEndsPollLoop ==
    (/\ cancelled
     /\ cancelPc = "sleep"
     /\ now - cancelAt > PollInterval)
    => swPc = "done"

\* C4: a status outside {NotFound, Stopped, Busy, Running} makes startWait
\* return a non-nil error, and success is returned for Running only.
C4_UnknownStatusIsError ==
    /\ (Len(log) >= 1 /\ LastRet.err = Nil
        /\ LastRet.instanceStatus \notin
             {StatusNotFound, StatusStopped, StatusBusy, StatusRunning})
       => (swPc = "done" /\ swResult # Nil)
    /\ (swPc = "done" /\ swResult = Nil)
       => LastRet.instanceStatus = StatusRunning

\* C5: a failed status query, at any iteration, makes startWait return
\* exactly the error of the query, with no Status, Start or Create call after
\* it.
C5_StatusErrorUnwrapped ==
    (Len(log) >= 1 /\ LastRet.err # Nil)
    => /\ swPc = "done"
       /\ swResult = LastRet.err
       /\ LastCalls = <<>>
       /\ inFlight = 0
       /\ \A i \in 1..(Len(log) - 1) : log[i].ret.err = Nil

C5_Witness ==
    /\ Len(log) = 3
    /\ LastRet.err = <<"provider failure">>
    /\ swPc = "done"
    /\ swResult = <<"provider failure">>

\* C6: with allowProvision, a failed provisioning call (Start or Create) makes
\* startWait return the provider's error wrapped in one message, the action
\* name, and nothing is called after it.
C6_ProvisionErrorWrapped ==
    (swPc = "done" /\ provErr \notin {None, Nil})
    => /\ create
       /\ Len(swResult) = Len(provErr) + 1
       /\ Tail(swResult) = provErr
       /\ Len(LastCalls) = 1
       /\ inFlight = 0

\* C7: when the answers are k times Busy and then Running, startWait returns
\* nil after exactly k+1 status queries, with no Start and no Create call,
\* whatever allowProvision is.
C7_BusyThenRunning ==
    (swPc = "done" /\ EndsRunningAfter({StatusBusy}))
    => /\ swResult = Nil
       /\ StatusCalls = Len(script)
       /\ StartCalls = 0
       /\ CreateCalls = 0

C7_Witness ==
    /\ swPc = "done"
    /\ Len(script) = 3
    /\ EndsRunningAfter({StatusBusy})
    /\ create
    /\ swResult = Nil
    /\ StatusCalls = 3

\* the provisioning calls the answer r of a status query asks for
Expected(r) ==
    IF IsOk(r, {StatusStopped}) THEN <<"Start">>
    ELSE IF IsOk(r, {StatusNotFound}) THEN <<"Create">>
    ELSE <<>>
\* iteration i is over: a later query was issued, or startWait returned
IsOver(i) == i < Len(log) \/ swPc = "done"

\* C8: with allowProvision, an iteration whose query answered Stopped issues
\* exactly one Start, one that answered NotFound exactly one Create, any other
\* none, before the next query or the return; at most one provisioning call
\* is in flight.
C8_OneProvisioningCallPerQuery ==
    create =>
      /\ \A i \in 1..Len(log) :
            /\ IsOver(i) => log[i].calls = Expected(log[i].ret)
            /\ log[i].calls \in {<<>>, Expected(log[i].ret)}
      /\ inFlight \in {0, 1}
      /\ inFlight = 1 <=> swPc \in {"inStart", "inCreate"}

C8_Witness ==
    /\ create
    /\ swPc = "done"
    /\ Len(log) = 2
    /\ IsOk(log[1].ret, {StatusBusy})
    /\ IsOk(log[2].ret, {StatusNotFound})
    /\ log[2].calls = <<"Create">>
    /\ swResult = Nil

----------------------------------------------------------------------------
\* Claims about runCredentialsServer

Allocated == {e \in PipeEnds : pipes[e].allocated}

\* C9: with both forwarding flags false runCredentialsServer returns nil at
\* once: no pipe is allocated, no goroutine started, no remote helper
\* spawned, the tunnel server not run.
C9_NoForwardingIsNoOp ==
    (~gitCredentials /\ ~dockerCredentials /\ rcsPc # "entry")
    => /\ rcsPc = "done"
       /\ rcsResult = Nil
       /\ Allocated = {}
       /\ goPc = "none"
       /\ spawns = 0
       /\ tunnelRuns = 0
       /\ errChan = <<>>
       /\ ~cancelCtx

C9_Witness ==
    /\ ~gitCredentials
    /\ ~dockerCredentials
    /\ rcsPc = "done"
    /\ rcsResult = Nil
    /\ Allocated = {}

\* C10: when runCredentialsServer has returned, every pipe end it allocated
\* has been closed exactly once.
C10_EveryPipeEndClosedOnce ==
    rcsPc = "done" => \A e \in Allocated : pipes[e].closes = 1


\* C11: when the context of runCredentialsServer is cancelled while the relay
\* runs (both the tunnel server and the remote process), and the two of them
\* end with nil or with the cancellation error, the function returns the
\* context's cancellation error wrapped in a message, with both pipe halves
\* closed.
C11_CancelReturnsWrappedCtxErr ==
    (/\ rcsCtx /\ rcsCtxAt = "tunnel" /\ rcsPc = "done"
     /\ tunnelRet \in {Nil, CtxErr}
     /\ runRet \in {None, Nil, CtxErr})
    => /\ Len(rcsResult) = 2
       /\ rcsResult[2] = "context canceled"
       /\ pipes["stdoutWriter"].closes = 1
       /\ pipes["stdinWriter"].closes = 1

\* C12: once the relay runs, the function is over as soon as the tunnel
\* server or the remote process has exited: it is never blocked on errChan
\* after the tunnel server exited, nor inside RunTunnelServer after the remote
\* process exited.
C12_FirstExitEndsRelay ==
    /\ rcsPc = "recv" => errChan # <<>>
    /\ goPc = "exited" => rcsPc # "tunnel"

\* C12 as amended: the function returns only after RunTunnelServer has
\* returned; at once, with the wrapped error, when that failed, and after the
\* receive of the remote process's result when it returned nil.  The remote
\* process exiting cancels cancelCtx.
C12_ReturnsAfterTunnelServer ==
    /\ (rcsPc = "done" /\ tunnelRuns = 1)
       => /\ tunnelRet # None
          /\ IF tunnelRet # Nil
             THEN rcsResult = Wrap(tunnelRet, "run tunnel server") /\ recvs = 0
             ELSE /\ goPc = "exited"
                  /\ recvs = 1
                  /\ rcsResult = runRet
    /\ rcsPc = "recv" => tunnelRet = Nil
    /\ goPc = "exited" => cancelCtx

C12_Witness ==
    /\ rcsPc = "done"
    /\ tunnelRet = Nil
    /\ runRet = <<"remote process failed">>
    /\ rcsResult = <<"remote process failed">>
    /\ recvs = 1

\* C13: the goroutine puts one result on errChan when it ends and none
\* before; errChan never holds more than one value, the send always finds
\* room, and the main path receives at most once.
C13_OneResultOnErrChan ==
    /\ Len(errChan) <= 1
    /\ recvs <= 1
    /\ Len(errChan) + recvs = (IF goPc = "exited" THEN 1 ELSE 0)
    /\ goPc \in {"started", "running"} => Len(errChan) < ErrChanCap
    /\ goPc = "exited" <=> runRet # None

C13_Witness ==
    /\ rcsPc = "done"
    /\ tunnelRet \notin {None, Nil}
    /\ recvs = 0
    /\ goPc = "exited"
    /\ errChan = <<runRet>>

\* C15: once runCredentialsServer has returned, a goroutine still alive has
\* its context cancelled, room for its send, and both writer ends closed under
\* it; and it ends: no task started by the call stays alive.
GoAlive == goPc \in {"started", "running"}
C15_NoTaskLeftBehind ==
    /\ [](rcsPc = "done" /\ GoAlive
          => /\ CancelCtxDone
             /\ Len(errChan) < ErrChanCap
             /\ pipes["stdoutWriter"].closes = 1
             /\ pipes["stdinWriter"].closes = 1)
    /\ (rcsPc = "done") ~> ~GoAlive

C15_Witness ==
    /\ rcsPc = "done"
    /\ goPc = "running"
    /\ ~rcsCtx
    /\ cancelCtx
    /\ pipes["stdinWriter"].closes = 1

\* s[i..] starts with t
StartsAt(s, t, i) == i + Len(t) - 1 <= Len(s) /\ SubSeq(s, i, i + Len(t) - 1) = t
Contains(s, t) == \E i \in 1..Len(s) : StartsAt(s, t, i)
\* the first place of t in s
IndexOf(s, t) == CHOOSE i \in 1..Len(s) :
                    StartsAt(s, t, i) /\ \A j \in 1..(i - 1) : ~StartsAt(s, t, j)
GitFlag == " --configure-git-helper"
DockerFlag == " --configure-docker-helper"
UserArg(u) == " --user '" \o u \o "'"

\* C17: the helper command holds --configure-git-helper iff gitCredentials and
\* --configure-docker-helper iff dockerCredentials, the git flag before the
\* docker flag and both after --user '<user>'.
C17_HelperFlags ==
    spawns >= 1 =>
      /\ Contains(helperCommand, GitFlag) <=> gitCredentials
      /\ Contains(helperCommand, DockerFlag) <=> dockerCredentials
      /\ Contains(helperCommand, UserArg(user))
      /\ gitCredentials =>
            IndexOf(helperCommand, UserArg(user)) + Len(UserArg(user))
              <= IndexOf(helperCommand, GitFlag)
      /\ dockerCredentials =>
            IndexOf(helperCommand, UserArg(user)) + Len(UserArg(user))
              <= IndexOf(helperCommand, DockerFlag)
      /\ (gitCredentials /\ dockerCredentials) =>
            IndexOf(helperCommand, GitFlag) + Len(GitFlag)
              <= IndexOf(helperCommand, DockerFlag)

C17_Witness ==
    /\ spawns = 1
    /\ gitCredentials
    /\ ~dockerCredentials
    /\ user = "vscode"
    /\ Contains(helperCommand, GitFlag)
    /\ ~Contains(helperCommand, DockerFlag)

----------------------------------------------------------------------------
\* Claims about the progress notice of startWait

\* the clock at the last notice before iteration i; the start, if none
RECURSIVE TimerAt(_)
TimerAt(i) == IF i <= 1 THEN 0
              ELSE IF log[i - 1].notice THEN log[i - 1].at
              ELSE TimerAt(i - 1)

\* C19: in a run of Busy answers the notice is logged only when more than 10
\* seconds have passed since startWait began or since the previous notice, and
\* it is logged then; the timer restarts at each notice, and polling goes on
\* after a notice.
C19_NoticeOncePerWindow ==
    /\ \A i \in 1..Len(log) :
          /\ log[i].notice <=> /\ IsOk(log[i].ret, {StatusBusy})
                               /\ log[i].at - TimerAt(i) > WaitThreshold
          /\ (log[i].notice /\ i = Len(log)) =>
                (swPc \in {"sleep", "status"} /\ swResult = None)
    /\ startWaiting = TimerAt(Len(log) + 1)

C19_Witness ==
    \E i, j \in 1..Len(log) :
        /\ i < j
        /\ log[i].notice
        /\ log[j].notice
        /\ j < Len(log)

----------------------------------------------------------------------------
\* Claims about jumpContainer

CommandBase(path, t, info) ==
    path
    \o " agent container-tunnel --start-container --track-activity --token '"
    \o t \o "' --workspace-info '" \o info \o "'"
DebugSegment(debug) == IF debug THEN " --debug" ELSE ""
UserSegment(u) == IF u = "" THEN "" ELSE " --user='" \o u \o "'"
WithoutUser(c, u) == SubSeq(c, 1, Len(c) - Len(UserSegment(u)))
CommandBuilt == outerPc \in {"running", "returned"}

\* C16: the command of the outer tunnel is the fixed text with the agent path,
\* the token and the workspace info, then " --debug" iff debug, then
\* " --user='<user>'" iff the user is not empty, in that order; it depends on
\* nothing else, and the command for any other user is the same apart from
\* the --user segment.
C16_CommandString ==
    CommandBuilt =>
        /\ command = CommandBase(agentPath, tok, workspaceInfo)
                     \o DebugSegment(cmdDebug) \o UserSegment(cmdUser)
        /\ \A u2 \in Users :
              WithoutUser(OuterCommand(agentPath, tok, workspaceInfo, u2, cmdDebug), u2)
              = WithoutUser(command, cmdUser)

C16_Witness ==
    /\ CommandBuilt
    /\ cmdDebug
    /\ cmdUser = "root"
    /\ command = "/opt/devpod agent container-tunnel --start-container --track-activity --token 'tokenB' --workspace-info '{}' --debug --user='root'"

JumpOrder == <<"startWait", "token", "agentInfo", "run">>
IsPrefix(a, b) == Len(a) <= Len(b) /\ a = SubSeq(b, 1, Len(a))
Answered(st) == \E i \in 1..Len(log) : log[i].ret = [instanceStatus |-> st, err |-> Nil]
HandlerRan == outerPc # "none" \/ innerPc # "none"

\* C20: jumpContainer runs status wait, token retrieval, agent-info
\* retrieval and tunnel Run in this order; a step that fails ends jumpContainer
\* with that step's error and no later step is made, so the tunnel is not
\* opened and no handler runs unless startWait returned nil; startWait is
\* called with create = false, so neither Start nor Create is ever called and
\* a Stopped or NotFound answer gives an error before any token, agent-info
\* or tunnel operation.
C20_StepsInOrder ==
    /\ IsPrefix(jcSteps, JumpOrder)
    /\ (swPc = "done" /\ swResult # Nil /\ jcPc # "startWait") =>
           jcPc = "done" /\ jcResult = swResult /\ jcSteps = <<"startWait">>
    /\ (jcPc = "done" /\ jcSteps = <<"startWait", "token">>) =>
           jcResult \in TokenErrs /\ swResult = Nil
    /\ (jcPc = "done" /\ jcSteps = <<"startWait", "token", "agentInfo">>) =>
           jcResult \in AgentInfoErrs /\ tok # ""
    /\ (jcPc = "done" /\ jcSteps = JumpOrder /\ connRet # Nil) =>
           jcResult = connRet /\ ~HandlerRan
    /\ (Len(jcSteps) = Len(JumpOrder) \/ HandlerRan) =>
           swPc = "done" /\ swResult = Nil /\ tok # "" /\ workspaceInfo # ""
    /\ HandlerRan => connRet = Nil
    /\ jcPc # "entry" => ~create
    /\ StartCalls = 0 /\ CreateCalls = 0 /\ swPc \notin {"start", "create"}
    /\ (Answered(StatusStopped) \/ Answered(StatusNotFound)) =>
           /\ jcSteps = <<"startWait">>
           /\ swPc = "done" /\ swResult # Nil
           /\ jcPc = "done" => jcResult = swResult

C20_Witness ==
    /\ Answered(StatusStopped)
    /\ jcPc = "done"
    /\ jcResult = Errorf("workspace is stopped")
    /\ jcSteps = <<"startWait">>

RanTunnel == jcPc = "done" /\ jcSteps = JumpOrder
RcsReturned == innerPc \in {"waitDone", "returned"}

\* C14: whatever runCredentialsServer returns (nil, the error of the remote
\* process, of the tunnel server or of a pipe allocation), the inner handler
\* returns nil and the error is only logged; what jumpContainer returns is the
\* error of the tunnel's connection or else what the outer handler returned.
C14_RelayFailureIsolated ==
    /\ innerPc = "returned" => innerRet = Nil
    /\ RcsReturned =>
           errLogged = IF rcsResult # Nil THEN <<rcsResult>> ELSE <<>>
    /\ ~RcsReturned => errLogged = <<>>
    /\ RanTunnel => jcResult = IF connRet # Nil THEN connRet ELSE outerRet

C14_Witness ==
    /\ innerPc = "returned"
    /\ rcsResult # Nil
    /\ errLogged = <<rcsResult>>
    /\ RanTunnel
    /\ jcResult = Nil

InnerStarted == innerPc \in {"rcs", "waitDone", "returned"}

\* C18: the inner handler never returns before its context is cancelled,
\* however early runCredentialsServer returned; once the context is cancelled
\* and runCredentialsServer has returned, the handler returns; it calls
\* runCredentialsServer exactly once, so a session has at most one relay.
C18_InnerHandlerLifetime ==
    /\ [](innerPc = "returned" => rcsCtx /\ rcsPc = "done")
    /\ [](rcsCalls = IF InnerStarted THEN 1 ELSE 0)
    /\ [](spawns <= 1 /\ tunnelRuns <= 1)
    /\ [](~InnerStarted => rcsPc = "idle")
    /\ (InnerStarted /\ rcsCtx /\ rcsPc = "done") ~> (innerPc = "returned")

C18_Witness ==
    /\ innerPc = "returned"
    /\ rcsCalls = 1
    /\ rcsResult # Nil
    /\ rcsCtxAt = "done"

====
